---------------------------- MODULE Spec2Model ----------------------------
(***************************************************************************)
(* Model of glowroot_trace_extractor.py: the GlowrootTraceExtractor class  *)
(* (marker-span extraction, decode-or-fallback, key normalisation, output  *)
(* writer) and the command-line driver main().                             *)
(*                                                                         *)
(* Text is a sequence of tokens, each a string.  A token is one character  *)
(* (a digit, a bracket, a quote, a blank ...) or one markup chunk (an      *)
(* opening script tag, "</script>", "</body>").  Identifiers are sequences *)
(* of one-character strings so that the key normaliser works on them       *)
(* character by character, as the code does.                               *)
(***************************************************************************)
EXTENDS Integers, Sequences, FiniteSets, TLC

(***************************************************************************)
(* Characters and strings                                                  *)
(***************************************************************************)
UpperChars == <<"A","B","C","D","E","F","G","H","I","J","K","L","M",
                "N","O","P","Q","R","S","T","U","V","W","X","Y","Z">>

LowerChars == <<"a","b","c","d","e","f","g","h","i","j","k","l","m",
                "n","o","p","q","r","s","t","u","v","w","x","y","z">>

\* each upper-case letter's lower-case letter
CaseMap ==
  [c \in {UpperChars[i] : i \in 1..Len(UpperChars)} |->
     LowerChars[CHOOSE i \in 1..Len(UpperChars) : UpperChars[i] = c]]

\* str.isupper() of one character
IsUpper(c) == c \in DOMAIN CaseMap

\* str.lower() of one character
LowerChar(c) == IF IsUpper(c) THEN CaseMap[c] ELSE c

\* str.lower() of a character sequence
LowerSeq(s) == [i \in 1..Len(s) |-> LowerChar(s[i])]

\* ''.join(chars)
RECURSIVE Join(_)
Join(s) == IF s = <<>> THEN "" ELSE Head(s) \o Join(Tail(s))

\* s[i:] startswith(p)
StartsWithAt(s, i, p) ==
  /\ i + Len(p) - 1 <= Len(s)
  /\ \A k \in 1..Len(p) : s[i + k - 1] = p[k]

\* str.replace(old, new): every non-overlapping occurrence, left to right
RECURSIVE ReplaceFrom(_, _, _, _)
ReplaceFrom(s, i, old, new) ==
  IF i > Len(s) THEN <<>>
  ELSE IF StartsWithAt(s, i, old)
    THEN new \o ReplaceFrom(s, i + Len(old), old, new)
    ELSE <<s[i]>> \o ReplaceFrom(s, i + 1, old, new)

Replace(s, old, new) == ReplaceFrom(s, 1, old, new)

(***************************************************************************)
(* The marker identifiers                                                  *)
(***************************************************************************)
headerJson == <<"h","e","a","d","e","r","J","s","o","n">>
entriesJson == <<"e","n","t","r","i","e","s","J","s","o","n">>
queriesJson == <<"q","u","e","r","i","e","s","J","s","o","n">>
sharedQueryTextsJson ==
  <<"s","h","a","r","e","d","Q","u","e","r","y","T","e","x","t","s","J","s","o","n">>
mainThreadProfileJson ==
  <<"m","a","i","n","T","h","r","e","a","d","P","r","o","f","i","l","e","J","s","o","n">>
auxThreadProfileJson ==
  <<"a","u","x","T","h","r","e","a","d","P","r","o","f","i","l","e","J","s","o","n">>

JSON_SCRIPT_IDS ==
  <<headerJson, entriesJson, queriesJson, sharedQueryTextsJson,
    mainThreadProfileJson, auxThreadProfileJson>>

JsonSuffix == <<"J","s","o","n">>

(***************************************************************************)
(* Key normaliser                                                          *)
(***************************************************************************)
\* variant: the underscore is inserted but the letter keeps its case
SnakeAtKeepingCase(camel_str, i) ==
  (IF IsUpper(camel_str[i]) /\ i > 1 THEN <<"_">> ELSE <<>>)
    \o <<camel_str[i]>>

\* the characters _camel_to_snake appends for the character at index i
SnakeAt(camel_str, i) ==
  (IF IsUpper(camel_str[i]) /\ i > 1 THEN <<"_">> ELSE <<>>)
    \o <<LowerChar(camel_str[i])>>

RECURSIVE SnakeFrom(_, _)
SnakeFrom(camel_str, i) ==
  IF i > Len(camel_str) THEN <<>>
  ELSE SnakeAt(camel_str, i) \o SnakeFrom(camel_str, i + 1)

camel_to_snake(camel_str) == Join(SnakeFrom(camel_str, 1))

\* self._camel_to_snake(script_id.replace('Json', ''))
OutputKey(script_id) == camel_to_snake(Replace(script_id, JsonSuffix, <<>>))

RawKey(script_id) == OutputKey(script_id) \o "_raw"


(***************************************************************************)
(* Document tokens                                                         *)
(***************************************************************************)
scriptLower == <<"s","c","r","i","p","t">>
scriptUpper == <<"S","C","R","I","P","T">>
bodyLower == <<"b","o","d","y">>

\* an id that differs from headerJson in letter case only, and a foreign id
headerJsonUpper == <<"H","E","A","D","E","R","J","S","O","N">>
otherJson == <<"o","t","h","e","r","J","s","o","n">>

MarkerIds == {JSON_SCRIPT_IDS[i] : i \in 1..Len(JSON_SCRIPT_IDS)}

\* the markup chunks a document is made of: kind, tag name as written, id
Markups ==
  {[kind |-> "open", name |-> n, id |-> i] :
      n \in {scriptLower, scriptUpper},
      i \in MarkerIds \cup {headerJsonUpper, otherJson}}
  \cup {[kind |-> "plain", name |-> scriptLower, id |-> <<>>],
        [kind |-> "close", name |-> scriptLower, id |-> <<>>],
        [kind |-> "close", name |-> scriptUpper, id |-> <<>>],
        [kind |-> "endbody", name |-> bodyLower, id |-> <<>>]}

\* the text of a markup chunk
RenderMarkup(m) ==
  CASE m.kind = "open" ->
         "<" \o Join(m.name) \o " type=\"text/json\" id=\"" \o Join(m.id) \o "\">"
    [] m.kind = "plain" -> "<" \o Join(m.name) \o ">"
    [] OTHER -> "</" \o Join(m.name) \o ">"

MarkupTokens == {RenderMarkup(m) : m \in Markups}

MarkupTable ==
  [tok \in MarkupTokens |-> CHOOSE m \in Markups : RenderMarkup(m) = tok]

OpenTag(name, id) == RenderMarkup([kind |-> "open", name |-> name, id |-> id])
PlainScript == RenderMarkup([kind |-> "plain", name |-> scriptLower, id |-> <<>>])
CloseScript == RenderMarkup([kind |-> "close", name |-> scriptLower, id |-> <<>>])
CloseScriptUpper == RenderMarkup([kind |-> "close", name |-> scriptUpper, id |-> <<>>])
EndBody == RenderMarkup([kind |-> "endbody", name |-> bodyLower, id |-> <<>>])

\* str.strip() removes these
Whitespace == {" ", "\n"}

(***************************************************************************)
(* Marker-span extractor (lines 105-115)                                   *)
(***************************************************************************)
\* variant: the pattern compiled without re.IGNORECASE
CaseFoldNone(text) == text

\* re.IGNORECASE: pattern text and document text are compared case-folded
CaseFold(text) == LowerSeq(text)

\* the markup chunks as the case-insensitive matcher sees them
FoldedTable ==
  [tok \in MarkupTokens |->
     [kind |-> MarkupTable[tok].kind,
      name |-> CaseFold(MarkupTable[tok].name),
      id |-> CaseFold(MarkupTable[tok].id)]]

\* the id as the pattern of line 107 compares it, compiled with the
\* flags of line 108
PatternId(script_id) == CaseFold(script_id)

\* <script\s+type="text/json"\s+id="{script_id}"[^>]*>  under re.IGNORECASE
OpenerMatches(tok, pattern_id) ==
  /\ tok \in MarkupTokens
  /\ FoldedTable[tok].kind = "open"
  /\ FoldedTable[tok].name = CaseFold(scriptLower)
  /\ FoldedTable[tok].id = pattern_id

\* (?=<script|</body>|$): the chunks at which the lazy capture stops
LookaheadMatches(tok) ==
  /\ tok \in MarkupTokens
  /\ \/ /\ FoldedTable[tok].kind \in {"open", "plain"}
        /\ FoldedTable[tok].name = CaseFold(scriptLower)
     \/ /\ FoldedTable[tok].kind = "endbody"
        /\ FoldedTable[tok].name = CaseFold(bodyLower)

\* re.search from index i: index of the leftmost opening marker, 0 if none
RECURSIVE SearchFrom(_, _, _)
SearchFrom(html_content, i, pattern_id) ==
  IF i > Len(html_content) THEN 0
  ELSE IF OpenerMatches(html_content[i], pattern_id) THEN i
  ELSE SearchFrom(html_content, i + 1, pattern_id)

\* re.search(pattern, html_content, re.DOTALL | re.IGNORECASE)
Search(html_content, script_id) ==
  SearchFrom(html_content, 1, PatternId(script_id))

\* (.*?) : the first position at or after i where the lookahead succeeds;
\* without re.MULTILINE "$" succeeds at the end and before a final newline
RECURSIVE CaptureEnd(_, _)
CaptureEnd(html_content, i) ==
  IF i > Len(html_content) THEN i
  ELSE IF LookaheadMatches(html_content[i]) THEN i
  ELSE IF i = Len(html_content) /\ html_content[i] = "\n" THEN i
  ELSE CaptureEnd(html_content, i + 1)

\* match.group(1)
Group1(html_content, at) ==
  SubSeq(html_content, at + 1, CaptureEnd(html_content, at + 1) - 1)

RECURSIVE LStrip(_)
LStrip(s) ==
  IF s # <<>> /\ Head(s) \in Whitespace THEN LStrip(Tail(s)) ELSE s

RECURSIVE RStrip(_)
RStrip(s) ==
  IF s # <<>> /\ s[Len(s)] \in Whitespace
    THEN RStrip(SubSeq(s, 1, Len(s) - 1)) ELSE s

\* str.strip()
Strip(s) == RStrip(LStrip(s))

\* variant: the content is not cut at the closing tag
CutAtCloseNever(content) == content

\* re.sub(r'</script>.*$', '', content, flags=re.DOTALL): no re.IGNORECASE
RECURSIVE CutAtClose(_)
CutAtClose(content) ==
  IF content = <<>> THEN <<>>
  ELSE IF Head(content) = CloseScript THEN <<>>
  ELSE <<Head(content)>> \o CutAtClose(Tail(content))

\* lines 111-115: the cleaned content of a match at index at
CleanContent(html_content, at) ==
  Strip(CutAtClose(Strip(Group1(html_content, at))))


(***************************************************************************)
(* JSON values.  Every value is a record of the same shape: t is the type, *)
(* n the number, s the characters of a string, items the elements of an    *)
(* array (k empty) or the members of an object (k the member's name), in   *)
(* insertion order as a Python dict keeps them.                            *)
(***************************************************************************)
JNum(n) == [t |-> "num", n |-> n, s |-> <<>>, items |-> <<>>]
JStr(s) == [t |-> "str", n |-> 0, s |-> s, items |-> <<>>]
JArr(items) == [t |-> "arr", n |-> 0, s |-> <<>>, items |-> items]
JObj(items) == [t |-> "obj", n |-> 0, s |-> <<>>, items |-> items]

Item(k, v) == [k |-> k, v |-> v]

\* dict: d[k] = v keeps the position of a key already present
DictSet(items, k, v) ==
  IF \E i \in 1..Len(items) : items[i].k = k
    THEN [i \in 1..Len(items) |-> IF items[i].k = k THEN Item(k, v) ELSE items[i]]
    ELSE Append(items, Item(k, v))

\* list(d.keys())
DictKeys(items) == [i \in 1..Len(items) |-> items[i].k]

HasKey(items, k) == \E i \in 1..Len(items) : items[i].k = k

\* d[k]
DictGet(items, k) == items[CHOOSE i \in 1..Len(items) : items[i].k = k].v

(***************************************************************************)
(* json.loads                                                              *)
(***************************************************************************)
DigitChars == <<"0","1","2","3","4","5","6","7","8","9">>

IsDigit(c) == \E i \in 1..Len(DigitChars) : DigitChars[i] = c

DigitVal(c) == (CHOOSE i \in 1..Len(DigitChars) : DigitChars[i] = c) - 1

\* the whitespace the decoder skips
JsonWs == {" ", "\n"}

ParseFail == [ok |-> FALSE, v |-> JNum(0), next |-> 0]

ParseOk(v, next) == [ok |-> TRUE, v |-> v, next |-> next]

RECURSIVE SkipWs(_, _)
SkipWs(toks, i) ==
  IF i <= Len(toks) /\ toks[i] \in JsonWs THEN SkipWs(toks, i + 1) ELSE i

\* (0|[1-9]\d*): the index just after the number that starts at i
RECURSIVE DigitsEnd(_, _)
DigitsEnd(toks, i) ==
  IF i <= Len(toks) /\ IsDigit(toks[i]) THEN DigitsEnd(toks, i + 1) ELSE i

NumberEnd(toks, i) == IF toks[i] = "0" THEN i + 1 ELSE DigitsEnd(toks, i)

\* int(digits) of toks[i..j-1]
RECURSIVE IntOf(_, _, _)
IntOf(toks, i, j) ==
  IF j <= i THEN 0 ELSE 10 * IntOf(toks, i, j - 1) + DigitVal(toks[j - 1])

\* py_scanstring from the character after the opening quote, strict
RECURSIVE ScanString(_, _, _)
ScanString(toks, j, acc) ==
  IF j > Len(toks) THEN ParseFail
  ELSE IF toks[j] = "\"" THEN ParseOk(JStr(acc), j + 1)
  ELSE IF toks[j] = "\n" THEN ParseFail
  ELSE IF toks[j] = "\\" THEN
    IF j + 1 > Len(toks) THEN ParseFail
    ELSE IF toks[j + 1] \in {"\"", "\\"}
      THEN ScanString(toks, j + 2, Append(acc, toks[j + 1]))
    ELSE IF toks[j + 1] = "n" THEN ScanString(toks, j + 2, Append(acc, "\n"))
    ELSE ParseFail
  ELSE ScanString(toks, j + 1, Append(acc, toks[j]))

RECURSIVE ParseValue(_, _)
RECURSIVE ParseElems(_, _, _)
RECURSIVE ParseMembers(_, _, _)

\* JSONArray after "[" and blanks, at index j
ParseArray(toks, j) ==
  IF j <= Len(toks) /\ toks[j] = "]" THEN ParseOk(JArr(<<>>), j + 1)
  ELSE ParseElems(toks, j, <<>>)

\* JSONObject after "{" and blanks, at index j
ParseObject(toks, j) ==
  IF j <= Len(toks) /\ toks[j] = "}" THEN ParseOk(JObj(<<>>), j + 1)
  ELSE ParseMembers(toks, j, <<>>)

\* scan_once at index i
ParseValue(toks, i) ==
  IF i > Len(toks) THEN ParseFail
  ELSE IF toks[i] = "\"" THEN ScanString(toks, i + 1, <<>>)
  ELSE IF IsDigit(toks[i])
    THEN ParseOk(JNum(IntOf(toks, i, NumberEnd(toks, i))), NumberEnd(toks, i))
  ELSE IF toks[i] = "[" THEN ParseArray(toks, SkipWs(toks, i + 1))
  ELSE IF toks[i] = "{" THEN ParseObject(toks, SkipWs(toks, i + 1))
  ELSE ParseFail

\* JSONArray: after the elements acc, at index j: "]" ends, "," goes on
AfterElem(toks, j, acc) ==
  IF j > Len(toks) THEN ParseFail
  ELSE IF toks[j] = "]" THEN ParseOk(JArr(acc), j + 1)
  ELSE IF toks[j] = "," THEN ParseElems(toks, SkipWs(toks, j + 1), acc)
  ELSE ParseFail

\* JSONArray: the element r has been scanned
WithElem(toks, r, acc) ==
  IF ~r.ok THEN ParseFail
  ELSE AfterElem(toks, SkipWs(toks, r.next), Append(acc, Item(<<>>, r.v)))

\* JSONArray: the elements from index i on
ParseElems(toks, i, acc) == WithElem(toks, ParseValue(toks, i), acc)

\* JSONObject: after the members acc, at index j: "}" ends, "," goes on
AfterMember(toks, j, acc) ==
  IF j > Len(toks) THEN ParseFail
  ELSE IF toks[j] = "}" THEN ParseOk(JObj(acc), j + 1)
  ELSE IF toks[j] = "," THEN ParseMembers(toks, SkipWs(toks, j + 1), acc)
  ELSE ParseFail

\* JSONObject: the member's value r has been scanned
WithMemberValue(toks, key, r, acc) ==
  IF ~r.ok THEN ParseFail
  ELSE AfterMember(toks, SkipWs(toks, r.next), DictSet(acc, key.v.s, r.v))

\* JSONObject: the member's name has been scanned, c is where ":" must be
AfterKey(toks, key, c, acc) ==
  IF c > Len(toks) \/ toks[c] # ":" THEN ParseFail
  ELSE WithMemberValue(toks, key, ParseValue(toks, SkipWs(toks, c + 1)), acc)

WithKey(toks, key, acc) ==
  IF ~key.ok THEN ParseFail
  ELSE AfterKey(toks, key, SkipWs(toks, key.next), acc)

\* JSONObject: the members from index i on
ParseMembers(toks, i, acc) ==
  IF i > Len(toks) \/ toks[i] # "\"" THEN ParseFail
  ELSE WithKey(toks, ScanString(toks, i + 1, <<>>), acc)

\* json.loads: the value r has been scanned; text after it is an error
WholeText(content, r) ==
  IF r.ok /\ SkipWs(content, r.next) = Len(content) + 1 THEN r ELSE ParseFail

\* json.loads(content): ok is FALSE where it raises JSONDecodeError
json_loads(content) == WholeText(content, ParseValue(content, SkipWs(content, 1)))

(***************************************************************************)
(* json.dump                                                               *)
(***************************************************************************)
RECURSIVE Decimal(_)
Decimal(n) ==
  IF n < 10 THEN <<DigitChars[n + 1]>>
  ELSE Decimal(n \div 10) \o <<DigitChars[(n % 10) + 1]>>

\* variant: the double quote is written as it is
EscapeCharQuoteBare(c) ==
  CASE c = "\\" -> <<"\\", "\\">>
    [] c = "\n" -> <<"\\", "n">>
    [] OTHER -> <<c>>

\* the escapes of one character of a string, ensure_ascii=False
EscapeChar(c) ==
  CASE c = "\"" -> <<"\\", "\"">>
    [] c = "\\" -> <<"\\", "\\">>
    [] c = "\n" -> <<"\\", "n">>
    [] OTHER -> <<c>>

RECURSIVE Escape(_)
Escape(s) == IF s = <<>> THEN <<>> ELSE EscapeChar(Head(s)) \o Escape(Tail(s))

DumpString(s) == <<"\"">> \o Escape(s) \o <<"\"">>

RECURSIVE Spaces(_)
Spaces(n) == IF n = 0 THEN <<>> ELSE <<" ">> \o Spaces(n - 1)

IndentWidth == 2

\* "\n" and the indentation of a nesting level (indent=2)
NewlineIndent(level) == <<"\n">> \o Spaces(IndentWidth * level)

RECURSIVE Dump(_, _, _)
RECURSIVE DumpItems(_, _, _, _, _)

\* the text of the items from index i on, each after its separator
DumpItems(items, i, isObj, compact, level) ==
  IF i > Len(items) THEN <<>>
  ELSE (IF i > 1 THEN <<",">> ELSE <<>>)
       \o (IF compact THEN <<>> ELSE NewlineIndent(level))
       \o (IF isObj
             THEN DumpString(items[i].k) \o (IF compact THEN <<":">> ELSE <<":", " ">>)
             ELSE <<>>)
       \o Dump(items[i].v, compact, level)
       \o DumpItems(items, i + 1, isObj, compact, level)

\* json.dump(v, f, separators=(',', ':')) when compact, else indent=2
Dump(v, compact, level) ==
  CASE v.t = "num" -> Decimal(v.n)
    [] v.t = "str" -> DumpString(v.s)
    [] v.t = "arr" ->
         IF v.items = <<>> THEN <<"[", "]">>
         ELSE <<"[">> \o DumpItems(v.items, 1, FALSE, compact, level + 1)
              \o (IF compact THEN <<>> ELSE NewlineIndent(level)) \o <<"]">>
    [] OTHER ->
         IF v.items = <<>> THEN <<"{", "}">>
         ELSE <<"{">> \o DumpItems(v.items, 1, TRUE, compact, level + 1)
              \o (IF compact THEN <<>> ELSE NewlineIndent(level)) \o <<"}">>

json_dump(v, compact) == Dump(v, compact, 0)


(***************************************************************************)
(* _extract_json_from_html (lines 93-139)                                  *)
(***************************************************************************)
\* a Python str used as a dict key or a string value: one chunk of text
Text(str) == <<str>>

\* variant: content that does not decode is dropped
StoreDecodedOnly(extracted, script_id, content, r) ==
  IF r.ok
    THEN DictSet(extracted, Text(OutputKey(script_id)), r.v)
    ELSE extracted

\* lines 118-133: content decoded, or kept raw where json.loads raised
StoreDecoded(extracted, script_id, content, r) ==
  IF r.ok
    THEN DictSet(extracted, Text(OutputKey(script_id)), r.v)
    ELSE DictSet(extracted, Text(RawKey(script_id)), JStr(content))

\* variant: empty content is decoded like any other
StoreContentUnchecked(extracted, script_id, content) ==
  StoreDecoded(extracted, script_id, content, json_loads(content))

\* lines 117-135: empty content adds nothing
StoreContent(extracted, script_id, content) ==
  IF content = <<>> THEN extracted
  ELSE StoreDecoded(extracted, script_id, content, json_loads(content))

\* lines 110-137: no match adds nothing
StoreMatch(extracted, html_content, script_id, at) ==
  IF at = 0 THEN extracted
  ELSE StoreContent(extracted, script_id, CleanContent(html_content, at))

\* the body of the loop for one script_id (lines 107-137)
ExtractOne(extracted, html_content, script_id) ==
  StoreMatch(extracted, html_content, script_id, Search(html_content, script_id))

\* for script_id in self.JSON_SCRIPT_IDS, from index i on
RECURSIVE ExtractLoop(_, _, _)
ExtractLoop(extracted, html_content, i) ==
  IF i > Len(JSON_SCRIPT_IDS) THEN extracted
  ELSE ExtractLoop(ExtractOne(extracted, html_content, JSON_SCRIPT_IDS[i]),
                   html_content, i + 1)

extract_json_from_html(html_content) == ExtractLoop(<<>>, html_content, 1)

(***************************************************************************)
(* Input files and extract_from_file (lines 45-91)                         *)
(***************************************************************************)
\* a byte that is not valid UTF-8, and the character latin-1 reads it as
RawByte == "<byte E9>"
Latin1Char == "<U+00E9>"

\* lines 65-71: UTF-8 first, latin-1 when UTF-8 decoding fails
ReadText(bytes) ==
  IF \E i \in 1..Len(bytes) : bytes[i] = RawByte
    THEN [i \in 1..Len(bytes) |-> IF bytes[i] = RawByte THEN Latin1Char ELSE bytes[i]]
    ELSE bytes

tool_version == "1.0.0"

\* datetime.now().isoformat() at clock reading t
IsoFormat(t) == <<"T">> \o Decimal(t)

\* a reference to a heap object, held where a value is held
JRef(addr) == [t |-> "ref", n |-> addr, s |-> <<>>, items |-> <<>>]

\* lines 77-83: the metadata dict
BuildMetadata(input, now, extracted) ==
  <<Item(Text("source_file"), JStr(Text(input.name))),
    Item(Text("source_path"), JStr(Text("/cwd/" \o input.name))),
    Item(Text("extraction_time"), JStr(IsoFormat(now))),
    Item(Text("tool_version"), JStr(Text(tool_version))),
    Item(Text("extracted_scripts"),
         JArr([i \in 1..Len(extracted) |-> Item(<<>>, JStr(extracted[i].k))]))>>

\* {**d}: the items of d set one by one into acc
RECURSIVE DictMerge(_, _, _)
DictMerge(acc, d, i) ==
  IF i > Len(d) THEN acc ELSE DictMerge(DictSet(acc, d[i].k, d[i].v), d, i + 1)

\* variant: {**self.extracted_data, 'extraction_metadata': self.extraction_metadata}
BuildResultMetadataLast(md_ref, extracted) ==
  DictSet(DictMerge(<<>>, extracted, 1), Text("extraction_metadata"), md_ref)

\* lines 86-89: {'extraction_metadata': self.extraction_metadata, **self.extracted_data}
BuildResult(md_ref, extracted) ==
  DictMerge(<<Item(Text("extraction_metadata"), md_ref)>>, extracted, 1)

\* line 74: self.extracted_data = ... binds the attribute to a new dict
\* object; the object it was bound to is left as it is
BindExtracted(h, old_addr, extracted) ==
  [heap |-> Append(h, extracted), addr |-> Len(h) + 1]

\* variant: the metadata dict is updated in place (clear, then update)
BindMetadataInPlace(h, old_addr, md) ==
  [heap |-> [h EXCEPT ![old_addr] = md], addr |-> old_addr]

\* lines 77-83: self.extraction_metadata = {...} binds a new dict object too
BindMetadata(h, old_addr, md) ==
  [heap |-> Append(h, md), addr |-> Len(h) + 1]

\* a value with its references followed
Resolve(h, v) == IF v.t = "ref" THEN JObj(h[v.n]) ELSE v

\* the dict at addr as a JSON value
DictValue(h, addr) ==
  JObj([i \in 1..Len(h[addr]) |-> Item(h[addr][i].k, Resolve(h, h[addr][i].v))])


(***************************************************************************)
(* Paths and main()'s arguments (lines 264-274)                            *)
(***************************************************************************)
\* a pathlib.Path: the directory components, then stem and suffix of the name
MkPath(dir, stem, suffix) == [dir |-> dir, stem |-> stem, suffix |-> suffix]

RECURSIVE JoinPath(_)
JoinPath(parts) ==
  IF parts = <<>> THEN "."
  ELSE IF Len(parts) = 1 THEN parts[1]
  ELSE parts[1] \o "/" \o JoinPath(Tail(parts))

\* str(path)
PathStr(path) == JoinPath(Append(path.dir, path.stem \o path.suffix))

\* mkdir(parents=True, exist_ok=True): the directory and its ancestors
MkdirParents(dirs, parts) ==
  dirs \cup {JoinPath(SubSeq(parts, 1, n)) : n \in 1..Len(parts)}

NoDir == <<>>

\* lines 267-274
OutputPathOf(args) ==
  IF args.output_dir # NoDir
    THEN IF args.separate
           THEN MkPath(args.output_dir, "extracted_data", "")
           ELSE MkPath(args.output_dir, "extracted_trace_data", ".json")
    ELSE args.output

\* line 193: output_path.parent / output_path.stem
BasePath(output_path) == Append(output_path.dir, output_path.stem)

\* line 197 and line 208: a file of the output directory
FileIn(base_path, name) == JoinPath(Append(base_path, name \o ".json"))

\* lines 206-207: the items the loop writes, in dict order
RECURSIVE DataItems(_, _)
DataItems(items, i) ==
  IF i > Len(items) THEN <<>>
  ELSE (IF items[i].k # Text("extraction_metadata") THEN <<items[i]>> ELSE <<>>)
       \o DataItems(items, i + 1)


(***************************************************************************)
(* Inputs                                                                  *)
(***************************************************************************)
FileInput(name, content, plan) ==
  [kind |-> "file", name |-> name, content |-> content, plan |-> plan]

\* a path at which nothing exists, and a path that is a directory
MissingInput == [kind |-> "missing", name |-> "nofile.html", content |-> <<>>, plan |-> <<>>]
DirInput == [kind |-> "dir", name |-> "traces", content |-> <<>>, plan |-> <<>>]

MaxDocLen == 3

\* the chunks of the exhaustively enumerated short documents
ShortAlphabet ==
  {OpenTag(scriptLower, headerJson), OpenTag(scriptUpper, entriesJson),
   OpenTag(scriptLower, headerJsonUpper), OpenTag(scriptLower, otherJson),
   PlainScript, CloseScript, CloseScriptUpper, EndBody,
   " ", "1"}

SeqsUpTo(S, n) == UNION {[1..k -> S] : k \in 0..n}

ShortDocs == SeqsUpTo(ShortAlphabet, MaxDocLen)

\* documents laid out region by region: what each marker's region holds;
\* "valid" and "valid_alt" are two ways of writing a region with valid JSON
RegionKinds == {"absent", "empty", "valid", "invalid"}

Plans ==
  [1..Len(JSON_SCRIPT_IDS) -> RegionKinds]
  \cup [1..Len(JSON_SCRIPT_IDS) -> {"valid", "valid_alt"}]

\* the tag name each marker's region is written with
TagOf(i) == IF i = 2 THEN scriptUpper ELSE scriptLower

AltTagOf(i) == IF i = 2 THEN scriptLower ELSE scriptUpper

ValidBody(i) ==
  CASE i = 1 -> <<"{", "\"", "a", "\"", ":", "1", "}">>
    [] i = 2 -> <<"[", "1", ",", " ", "1", "]">>
    [] i = 3 -> <<"[", "]">>
    [] i = 4 -> <<"\"", "a", "\\", "\"", "\"">>
    [] i = 5 -> <<"1", "0">>
    [] OTHER -> <<"{", "}">>

\* the value each valid body denotes
ValidValue(i) ==
  CASE i = 1 -> JObj(<<Item(<<"a">>, JNum(1))>>)
    [] i = 2 -> JArr(<<Item(<<>>, JNum(1)), Item(<<>>, JNum(1))>>)
    [] i = 3 -> JArr(<<>>)
    [] i = 4 -> JStr(<<"a", "\"">>)
    [] i = 5 -> JNum(10)
    [] OTHER -> JObj(<<>>)

InvalidBody(i) ==
  CASE i = 1 -> <<"{">>
    [] i = 2 -> <<"1", " ", "1">>
    [] i = 3 -> <<"a">>
    [] i = 4 -> <<"\"", RawByte>>
    [] i = 5 -> <<"1", CloseScriptUpper>>
    [] OTHER -> <<"[", "1", ",", "]">>

\* what surrounds a valid body: blanks, a closing tag, text after it, or
\* nothing at all (a region that is never closed)
ValidRegion(i) ==
  CASE i = 1 -> ValidBody(1) \o <<CloseScript>>
    [] i = 2 -> <<"\n", " ">> \o ValidBody(2) \o <<"\n", CloseScript, "\n">>
    [] i = 3 -> ValidBody(3) \o <<CloseScript, "a", CloseScript>>
    [] i = 4 -> ValidBody(4) \o <<" ", CloseScript>>
    [] i = 5 -> ValidBody(5) \o <<"\n">>
    [] OTHER -> ValidBody(6) \o <<CloseScript, EndBody, "a">>

AltBody(i) ==
  CASE i = 1 -> <<"1">>
    [] i = 2 -> <<"{", "\"", "a", "\"", ":", "[", "]", "}">>
    [] i = 3 -> <<"\"", CloseScriptUpper, "\"">>
    [] i = 4 -> <<"[", " ", "]">>
    [] i = 5 -> <<"{", "\"", "a", "\"", ":", "1", ",", "\"", "a", "\"", ":", "0", "}">>
    [] OTHER -> <<"0">>

AltValue(i) ==
  CASE i = 1 -> JNum(1)
    [] i = 2 -> JObj(<<Item(<<"a">>, JArr(<<>>))>>)
    [] i = 3 -> JStr(<<CloseScriptUpper>>)
    [] i = 4 -> JArr(<<>>)
    [] i = 5 -> JObj(<<Item(<<"a">>, JNum(0))>>)
    [] OTHER -> JNum(0)

AltRegion(i) ==
  CASE i = 1 -> <<"\n">> \o AltBody(1) \o <<"\n", CloseScript>>
    [] i = 2 -> AltBody(2) \o <<CloseScript, " ">>
    [] i = 3 -> AltBody(3) \o <<CloseScript>>
    [] i = 4 -> AltBody(4) \o <<EndBody>>
    [] i = 5 -> AltBody(5) \o <<CloseScript, "\n">>
    [] OTHER -> AltBody(6)

Region(i, kind) ==
  CASE kind = "absent" -> <<>>
    [] kind = "valid_alt" -> <<OpenTag(AltTagOf(i), JSON_SCRIPT_IDS[i])>> \o AltRegion(i)
    [] kind = "empty" -> <<OpenTag(TagOf(i), JSON_SCRIPT_IDS[i]), " ", CloseScript, "\n">>
    [] kind = "valid" -> <<OpenTag(TagOf(i), JSON_SCRIPT_IDS[i])>> \o ValidRegion(i)
    [] OTHER -> <<OpenTag(TagOf(i), JSON_SCRIPT_IDS[i])>> \o InvalidBody(i)
                  \o <<CloseScript>>

\* the orders in which the regions are laid out: as the markers are
\* declared, and shuffled
DeclaredOrder == <<1, 2, 3, 4, 5, 6>>
ShuffledOrder == <<5, 3, 1, 6, 4, 2>>

RECURSIVE Layout(_, _, _)
Layout(plan, order, p) ==
  IF p > Len(order) THEN <<>>
  ELSE Region(order[p], plan[order[p]]) \o Layout(plan, order, p + 1)

PlannedInputs ==
  {FileInput("trace.html", Layout(plan, DeclaredOrder, 1), plan) : plan \in Plans}
  \cup {FileInput("shuffled.html", Layout(plan, ShuffledOrder, 1), plan) :
          plan \in {q \in Plans : \A i \in DOMAIN q : q[i] # "empty"}}

ShortInputs == {FileInput("short.html", d, <<>>) : d \in ShortDocs}

MainInputs == {MissingInput, DirInput} \cup ShortInputs \cup PlannedInputs

\* the documents of a sequence of calls on one instance: the header and
\* entries regions in every kind, the other markers absent
LibPlans == {plan \in Plans : \A i \in 3..Len(JSON_SCRIPT_IDS) : plan[i] = "absent"}

LibInputs ==
  {MissingInput, DirInput}
  \cup {FileInput("trace.html", Layout(plan, DeclaredOrder, 1), plan) : plan \in LibPlans}

MaxCalls == 2

\* the argument vectors main() is run with
MkArgs(output, separate, pretty, output_dir) ==
  [output |-> output, separate |-> separate, pretty |-> pretty,
   output_dir |-> output_dir]

DefaultOutput == MkPath(<<>>, "extracted_trace_data", ".json")

ArgChoices ==
  {MkArgs(DefaultOutput, FALSE, FALSE, NoDir),
   MkArgs(MkPath(<<"data">>, "trace", ".json"), TRUE, FALSE, NoDir),
   MkArgs(DefaultOutput, TRUE, TRUE, <<"analysis">>),
   MkArgs(DefaultOutput, FALSE, TRUE, <<"analysis">>)}


(***************************************************************************)
(* State                                                                   *)
(***************************************************************************)
VARIABLES
  heap,       \* the dict objects: address -> items
  self,       \* the extractor's attributes: addresses of its two dicts
  clock,      \* what datetime.now() last read
  calls,      \* the extract_from_file calls made so far, with what they returned
  pc,         \* where main() is
  args,       \* main()'s parsed arguments
  data,       \* main()'s extracted_data: address of the Combined Output
  wi,         \* index of the next item _save_separate_files writes
  files,      \* the output files: path and content, in order of creation
  dirs,       \* the directories created
  saved,      \* the paths reported saved, in order
  error,      \* the exception main() caught
  exit_code   \* the process's exit code, -1 while it runs

vars == <<heap, self, clock, calls, pc, args, data, wi, files, dirs, saved,
          error, exit_code>>

mainVars == <<pc, args, data, wi, files, dirs, saved, error, exit_code>>

NoArgs == MkArgs(DefaultOutput, FALSE, FALSE, NoDir)

\* GlowrootTraceExtractor(): two empty dicts (lines 40-43)
Init ==
  /\ heap = << <<>>, <<>> >>
  /\ self = [extracted_data |-> 1, extraction_metadata |-> 2]
  /\ clock = 0
  /\ calls = <<>>
  /\ pc = "start"
  /\ args = NoArgs
  /\ data = 0
  /\ wi = 0
  /\ files = <<>>
  /\ dirs = {}
  /\ saved = <<>>
  /\ error = "none"
  /\ exit_code = -1

(***************************************************************************)
(* extract_from_file (lines 59-91)                                         *)
(***************************************************************************)
\* lines 86-91: the Combined Output is a new dict; b1 and b2 are what the
\* two attributes were bound to
ReturnResult(b1, b2) ==
  [raised |-> "none",
   heap |-> Append(b2.heap, BuildResult(JRef(b2.addr), b2.heap[b1.addr])),
   self |-> [extracted_data |-> b1.addr, extraction_metadata |-> b2.addr],
   result |-> Len(b2.heap) + 1]

\* lines 77-83
AddMetadata(b1, slf, now, input) ==
  ReturnResult(b1, BindMetadata(b1.heap, slf.extraction_metadata,
                                BuildMetadata(input, now, b1.heap[b1.addr])))

\* what a call does to the heap and to self, what it raises or returns
extract_from_file(h, slf, now, input) ==
  IF input.kind = "missing"
    THEN [raised |-> "FileNotFoundError", heap |-> h, self |-> slf, result |-> 0]
  ELSE IF input.kind = "dir"
    THEN [raised |-> "IsADirectoryError", heap |-> h, self |-> slf, result |-> 0]
  ELSE AddMetadata(BindExtracted(h, slf.extracted_data,
                                 extract_json_from_html(ReadText(input.content))),
                   slf, now, input)

\* the record of a call: its input, the attributes before it, and what it
\* returned as the value it had on return
CallRecord(input, now, out) ==
  [input |-> input,
   now |-> now,
   raised |-> out.raised,
   result |-> out.result,
   returned |-> IF out.raised = "none" THEN DictValue(out.heap, out.result)
                ELSE JObj(<<>>),
   data_before |-> DictValue(heap, self.extracted_data),
   md_before |-> DictValue(heap, self.extraction_metadata)]

\* the state after a call with outcome out
Called(input, out) ==
  /\ clock' = clock + 1
  /\ heap' = out.heap
  /\ self' = out.self
  /\ calls' = Append(calls, CallRecord(input, clock + 1, out))

\* one call of extract_from_file on the instance
Call(input) == Called(input, extract_from_file(heap, self, clock + 1, input))

(***************************************************************************)
(* main() (lines 264-298)                                                  *)
(***************************************************************************)
\* variant: the exception is reported but the process exits normally
AbortExitZero(exc) ==
  /\ pc' = "failed"
  /\ error' = exc
  /\ exit_code' = 0

\* lines 296-298: an exception caught by main(): sys.exit(1)
Abort(exc) ==
  /\ pc' = "failed"
  /\ error' = exc
  /\ exit_code' = 1

\* variant: the output directory is created before the extraction
MainCalledMkdirFirst(input, out) ==
  /\ Called(input, out)
  /\ IF out.raised = "none"
       THEN /\ pc' = "save"
            /\ data' = out.result
            /\ UNCHANGED <<error, exit_code>>
       ELSE /\ Abort(out.raised)
            /\ UNCHANGED data
  /\ dirs' = MkdirParents(dirs, OutputPathOf(args').dir)
  /\ UNCHANGED <<wi, files, saved>>

\* lines 284-298: the call returned, or raised and main() caught it
MainCalled(input, out) ==
  /\ Called(input, out)
  /\ IF out.raised = "none"
       THEN /\ pc' = "save"
            /\ data' = out.result
            /\ UNCHANGED <<error, exit_code>>
       ELSE /\ Abort(out.raised)
            /\ UNCHANGED data
  /\ UNCHANGED <<wi, files, dirs, saved>>

\* lines 264-284: parse the arguments, construct, extract
MainExtract ==
  /\ pc = "start"
  /\ \E a \in ArgChoices, input \in MainInputs :
       /\ args' = a
       /\ MainCalled(input, extract_from_file(heap, self, clock + 1, input))

\* the directory save_to_file creates first (line 181, lines 193-194)
SaveDir ==
  IF args.separate THEN BasePath(OutputPathOf(args)) ELSE OutputPathOf(args).dir

\* mkdir(parents=True, exist_ok=True) succeeds
SaveMkdir ==
  /\ pc = "save"
  /\ dirs' = MkdirParents(dirs, SaveDir)
  /\ pc' = IF args.separate THEN "write_metadata" ELSE "write_combined"
  /\ UNCHANGED <<heap, self, clock, calls, args, data, wi, files, saved, error,
                 exit_code>>

\* mkdir raises
SaveMkdirFails ==
  /\ pc = "save"
  /\ Abort("OSError")
  /\ UNCHANGED <<heap, self, clock, calls, args, data, wi, files, dirs, saved>>

\* open(path, 'w') creates or truncates the file, json.dump fills it
PutFile(fs, path, content) ==
  IF \E i \in 1..Len(fs) : fs[i].path = path
    THEN [i \in 1..Len(fs) |->
            IF fs[i].path = path THEN [path |-> path, content |-> content] ELSE fs[i]]
    ELSE Append(fs, [path |-> path, content |-> content])

MaxPartial == 0

\* what an interrupted json.dump leaves in the file: a proper prefix
PartialTexts(text) ==
  {SubSeq(text, 1, n) : n \in 0..(IF Len(text) - 1 < MaxPartial
                                    THEN Len(text) - 1 ELSE MaxPartial)}

\* a file is written and reported
WriteOk(path, value) ==
  /\ files' = PutFile(files, path, json_dump(value, ~args.pretty))
  /\ saved' = Append(saved, path)

\* open() raises, or json.dump raises part of the way
WriteFails(path, value) ==
  /\ \/ UNCHANGED files
     \/ \E part \in PartialTexts(json_dump(value, ~args.pretty)) :
          files' = PutFile(files, path, part)
  /\ Abort("OSError")
  /\ UNCHANGED saved

\* the items the loop of _save_separate_files writes
ItemsToWrite == DataItems(heap[data], 1)

CombinedPath == PathStr(OutputPathOf(args))

\* _save_combined_file (lines 183-189)
SaveCombined ==
  /\ pc = "write_combined"
  /\ WriteOk(CombinedPath, DictValue(heap, data))
  /\ pc' = "done"
  /\ exit_code' = 0
  /\ UNCHANGED <<heap, self, clock, calls, args, data, wi, dirs, error>>

SaveCombinedFails ==
  /\ pc = "write_combined"
  /\ WriteFails(CombinedPath, DictValue(heap, data))
  /\ UNCHANGED <<heap, self, clock, calls, args, data, wi, dirs>>

MetadataPath == FileIn(SaveDir, "extraction_metadata")

\* data['extraction_metadata']
MetadataValue == Resolve(heap, DictGet(heap[data], Text("extraction_metadata")))

\* lines 197-203; main() returns when there is nothing more to write
SaveMetadata ==
  /\ pc = "write_metadata"
  /\ WriteOk(MetadataPath, MetadataValue)
  /\ wi' = 1
  /\ IF ItemsToWrite = <<>>
       THEN pc' = "done" /\ exit_code' = 0
       ELSE pc' = "write_keys" /\ UNCHANGED exit_code
  /\ UNCHANGED <<heap, self, clock, calls, args, data, dirs, error>>

SaveMetadataFails ==
  /\ pc = "write_metadata"
  /\ WriteFails(MetadataPath, MetadataValue)
  /\ UNCHANGED <<heap, self, clock, calls, args, data, wi, dirs>>

KeyPath(item) == FileIn(SaveDir, Join(item.k))

\* lines 206-214: one turn of the loop
SaveKey ==
  /\ pc = "write_keys"
  /\ WriteOk(KeyPath(ItemsToWrite[wi]), ItemsToWrite[wi].v)
  /\ wi' = wi + 1
  /\ IF wi = Len(ItemsToWrite)
       THEN pc' = "done" /\ exit_code' = 0
       ELSE pc' = "write_keys" /\ UNCHANGED exit_code
  /\ UNCHANGED <<heap, self, clock, calls, args, data, dirs, error>>

SaveKeyFails ==
  /\ pc = "write_keys"
  /\ WriteFails(KeyPath(ItemsToWrite[wi]), ItemsToWrite[wi].v)
  /\ UNCHANGED <<heap, self, clock, calls, args, data, wi, dirs>>

\* a caller of the class calls extract_from_file again on the same instance
LibCall ==
  /\ Len(calls) < MaxCalls
  /\ \E input \in LibInputs : Call(input)
  /\ UNCHANGED mainVars

Next ==
  \/ MainExtract
  \/ SaveMkdir
  \/ SaveMkdirFails
  \/ SaveCombined
  \/ SaveCombinedFails
  \/ SaveMetadata
  \/ SaveMetadataFails
  \/ SaveKey
  \/ SaveKeyFails

Spec == Init /\ [][Next]_vars

\* one call of extract_from_file on a new instance, on any input file
FirstCall ==
  /\ calls = <<>>
  /\ \E input \in MainInputs : Call(input)
  /\ UNCHANGED mainVars

NextExtract == FirstCall

SpecExtract == Init /\ [][NextExtract]_vars

NextLib == LibCall

SpecLib == Init /\ [][NextLib]_vars


(***************************************************************************)
(* Properties.  What the claims speak of is defined here on its own terms: *)
(* the keys by their names, the span of a marker by the positions of the   *)
(* chunks that delimit it.                                                 *)
(***************************************************************************)
NormalizedKeys ==
  <<"header", "entries", "queries", "shared_query_texts",
    "main_thread_profile", "aux_thread_profile">>

RawKeys == [i \in 1..Len(NormalizedKeys) |-> NormalizedKeys[i] \o "_raw"]

MetadataKey == "extraction_metadata"

Markers == 1..Len(NormalizedKeys)

\* the names of the keys of a dict value, in order
KeyNames(v) == [p \in 1..Len(v.items) |-> Join(v.items[p].k)]

Has(v, name) == \E p \in 1..Len(v.items) : v.items[p].k = <<name>>

Get(v, name) == v.items[CHOOSE p \in 1..Len(v.items) : v.items[p].k = <<name>>].v

\* extraction_metadata.extracted_scripts as a list of names
ScriptsOf(v) ==
  [p \in 1..Len(Get(Get(v, MetadataKey), "extracted_scripts").items) |->
     Join(Get(Get(v, MetadataKey), "extracted_scripts").items[p].v.s)]

Succeeded(n) == calls[n].raised = "none"

OnFile(n) == calls[n].input.kind = "file"

\* the document text of call n as read
TextOf(n) == ReadText(calls[n].input.content)

AllSixValid(input) ==
  /\ input.kind = "file"
  /\ input.plan # <<>>
  /\ \A i \in Markers : input.plan[i] \in {"valid", "valid_alt"}

\* the value the region of marker i was written to denote
PlannedValue(plan, i) == IF plan[i] = "valid" THEN ValidValue(i) ELSE AltValue(i)

\* C1: when all six marker regions are present with valid JSON, the result
\* has the metadata key and exactly the six normalized keys, none with a
\* _raw suffix, each holding the decoded value of its region, and
\* extracted_scripts lists the six keys in declared order.
C1_AllSixDecoded ==
    \A n \in 1..Len(calls) :
      AllSixValid(calls[n].input) =>
        /\ Succeeded(n)
        /\ KeyNames(calls[n].returned) = <<MetadataKey>> \o NormalizedKeys
        /\ \A i \in Markers :
             Get(calls[n].returned, NormalizedKeys[i])
               = PlannedValue(calls[n].input.plan, i)
        /\ ScriptsOf(calls[n].returned) = NormalizedKeys

C1_Witness ==
  /\ calls # <<>>
  /\ AllSixValid(calls[1].input)
  /\ calls[1].input.name = "shuffled.html"
  /\ calls[1].input.plan[3] = "valid_alt"
  /\ Has(calls[1].returned, "shared_query_texts")

\* the marker a key name belongs to, 0 if none
MarkerOfKey(name) ==
  IF \E i \in Markers : name \in {NormalizedKeys[i], RawKeys[i]}
    THEN CHOOSE i \in Markers : name \in {NormalizedKeys[i], RawKeys[i]}
    ELSE 0

\* the keys after the first
RestOf(names) == SubSeq(names, 2, Len(names))

\* the result keys are one per marker at most and in marker order
InMarkerOrder(names) ==
  /\ \A p \in 1..Len(names) : MarkerOfKey(names[p]) # 0
  /\ \A p, q \in 1..Len(names) :
       p < q => MarkerOfKey(names[p]) < MarkerOfKey(names[q])

\* C9: every marker contributes at most one key (plain or _raw, never both),
\* the result keys are pairwise distinct, none is extraction_metadata, they
\* are in marker order, extracted_scripts is exactly the list of result
\* keys, and the Combined Output is extraction_metadata, then the result keys.
C9_KeysUniqueOrdered ==
    \A n \in 1..Len(calls) :
      Succeeded(n) =>
        /\ Len(calls[n].returned.items) >= 1
        /\ KeyNames(calls[n].returned)[1] = MetadataKey
        /\ \A p \in 2..Len(calls[n].returned.items) :
             KeyNames(calls[n].returned)[p] # MetadataKey
        /\ \A p, q \in 1..Len(calls[n].returned.items) :
             p # q => KeyNames(calls[n].returned)[p] # KeyNames(calls[n].returned)[q]
        /\ InMarkerOrder(RestOf(KeyNames(calls[n].returned)))
        /\ ScriptsOf(calls[n].returned) = RestOf(KeyNames(calls[n].returned))

C9_Witness ==
  /\ calls # <<>>
  /\ calls[1].input.name = "shuffled.html"
  /\ KeyNames(calls[1].returned)
       = <<MetadataKey, "header_raw", "queries", "main_thread_profile_raw">>


(***************************************************************************)
(* The span of a marker, by positions                                      *)
(***************************************************************************)
ScriptNames == {scriptLower, scriptUpper}

AllIds == MarkerIds \cup {headerJsonUpper, otherJson}

SameIgnoringCase(a, b) == LowerSeq(a) = LowerSeq(b)

\* the opening markers of marker i: the tag name script and the id of the
\* marker, both in any letter case
OpeningsFor ==
  [i \in Markers |->
     {OpenTag(n, id) : n \in ScriptNames,
                       id \in {x \in AllIds : SameIgnoringCase(x, JSON_SCRIPT_IDS[i])}}]

\* the opening markers whose id is the marker's id letter for letter
ExactOpeningsFor ==
  [i \in Markers |-> {OpenTag(n, JSON_SCRIPT_IDS[i]) : n \in ScriptNames}]

\* what ends a span: any script opening, or the end of the body
SpanStops ==
  {OpenTag(n, id) : n \in ScriptNames, id \in AllIds} \cup {PlainScript, EndBody}

Positions(d, S) == {k \in 1..Len(d) : d[k] \in S}

Least(S) == CHOOSE x \in S : \A y \in S : x <= y

Greatest(S) == CHOOSE x \in S : \A y \in S : x >= y

Present(d, i) == Positions(d, OpeningsFor[i]) # {}

FirstOpening(d, i) == Least(Positions(d, OpeningsFor[i]))

\* the earliest stop after position k, or the end of the document
StopAfter(d, k) ==
  IF \E j \in (k + 1)..Len(d) : d[j] \in SpanStops
    THEN Least({j \in (k + 1)..Len(d) : d[j] \in SpanStops})
    ELSE Len(d) + 1

Between(d, k) == SubSeq(d, k + 1, StopAfter(d, k) - 1)

\* cut at the first closing-marker token
BeforeClose(t) ==
  IF Positions(t, {CloseScript}) = {} THEN t
  ELSE SubSeq(t, 1, Least(Positions(t, {CloseScript})) - 1)

NonBlank(t) == {j \in 1..Len(t) : t[j] \notin {" ", "\n"}}

Trim(t) ==
  IF NonBlank(t) = {} THEN <<>>
  ELSE SubSeq(t, Least(NonBlank(t)), Greatest(NonBlank(t)))

\* the extracted span of marker i in a document where it is present
SpanOf(d, i) == Trim(BeforeClose(Between(d, FirstOpening(d, i))))

\* the entries marker i contributed to a result
OutcomeItems(v, i) == SelectSeq(v.items, LAMBDA it : MarkerOfKey(Join(it.k)) = i)

Decodes(t) == json_loads(t).ok

\* what a span t of marker i must have contributed, parsed being what
\* decoding it gives
OutcomeOfParsed(i, t, parsed) ==
  IF parsed.ok THEN <<Item(<<NormalizedKeys[i]>>, parsed.v)>>
  ELSE <<Item(<<RawKeys[i]>>, JStr(t))>>

SpanOutcome(i, t) == IF t = <<>> THEN <<>> ELSE OutcomeOfParsed(i, t, json_loads(t))

\* the document of the example
HeaderExample ==
  <<OpenTag(scriptLower, headerJson), "{", "\"", "a", "\"", ":", "1", "}", CloseScript>>

Repaired(d, i) ==
  SubSeq(d, 1, FirstOpening(d, i)) \o <<"1">>
    \o SubSeq(d, StopAfter(d, FirstOpening(d, i)), Len(d))

\* the entries of the markers other than i are the same in v and in w
SameButFor(v, i, w) ==
  \A j \in Markers \ {i} : OutcomeItems(v, j) = OutcomeItems(w, j)

\* the outcomes of the markers other than i are those of document other
OthersAsIn(v, i, other) == SameButFor(v, i, JObj(extract_json_from_html(other)))

\* a span that is not empty and does not decode
Undecodable(t) == t # <<>> /\ ~Decodes(t)

FailsDecoding(d, i) == Present(d, i) /\ Undecodable(SpanOf(d, i))

Filled(d, i) ==
  IF Present(d, i) THEN Repaired(d, i)
  ELSE d \o <<OpenTag(scriptLower, JSON_SCRIPT_IDS[i]), "1">>

ContributesNothing(d, i) == ~Present(d, i) \/ SpanOf(d, i) = <<>>

\* C3: a marker whose opening tag does not occur in the document, or whose
\* span is empty after trimming, contributes neither the plain key nor the
\* _raw key, does not raise, and leaves the keys and values of the other
\* markers as they are.
C3_AbsentOrEmptyNoKey ==
    \A n \in 1..Len(calls) :
      OnFile(n) =>
        \A i \in Markers :
          ContributesNothing(TextOf(n), i) =>
            /\ Succeeded(n)
            /\ ~Has(calls[n].returned, NormalizedKeys[i])
            /\ ~Has(calls[n].returned, RawKeys[i])
            /\ OthersAsIn(calls[n].returned, i, Filled(TextOf(n), i))

C3_Witness ==
  /\ calls # <<>>
  /\ calls[1].input.plan = <<"empty", "absent", "valid", "absent", "invalid", "empty">>
  /\ KeyNames(calls[1].returned) = <<MetadataKey, "queries", "main_thread_profile_raw">>

\* C8 (as stated): a region is matched for a marker only when its id equals
\* the marker identifier exactly, so a marker with no opening marker of
\* exactly its id contributes no key.
C8_IdExact ==
    \A n \in 1..Len(calls) :
      OnFile(n) =>
        \A i \in Markers :
          OutcomeItems(calls[n].returned, i) # <<>> =>
            Positions(TextOf(n), ExactOpeningsFor[i]) # {}

\* C8 (amended): a region is matched for a marker when its tag name is
\* script and its id equals the marker identifier, both compared ignoring
\* letter case; a marker contributes a key exactly when such a region
\* occurs and the span of the first one is not empty, so a region whose id
\* differs from the identifier in more than letter case contributes nothing.
C8_IdIgnoringCase ==
    \A n \in 1..Len(calls) :
      OnFile(n) =>
        \A i \in Markers :
          OutcomeItems(calls[n].returned, i) # <<>>
            <=> (Present(TextOf(n), i) /\ SpanOf(TextOf(n), i) # <<>>)

C8_Witness ==
  /\ calls # <<>>
  /\ calls[1].input.content
       = <<OpenTag(scriptLower, otherJson), OpenTag(scriptLower, headerJsonUpper), "1">>
  /\ calls[1].returned.items[2] = Item(<<"header">>, JNum(1))


(***************************************************************************)
(* Properties of a run of main()                                           *)
(***************************************************************************)
Aborted == pc = "failed"

\* C4: when the input path is not an existing file the run fails with
\* FileNotFoundError raised by extract_from_file before anything is read or
\* extracted, the exit code is not zero, save_to_file is never reached and
\* no output file or directory is created.
C4_MissingInputFails ==
  (calls # <<>> /\ calls[1].input.kind = "missing") =>
    /\ Aborted
    /\ calls[1].raised = "FileNotFoundError"
    /\ error = "FileNotFoundError"
    /\ exit_code # 0 /\ exit_code # -1
    /\ heap = << <<>>, <<>> >>
    /\ files = <<>> /\ dirs = {} /\ saved = <<>>

C4_Witness ==
  /\ Aborted
  /\ calls # <<>>
  /\ calls[1].input = MissingInput
  /\ args.separate

\* the directory of separate-files mode: named after the base name of the
\* output path, next to it
OutputDirName ==
  IF args.output_dir # NoDir
    THEN JoinPath(args.output_dir) \o "/extracted_data"
    ELSE JoinPath(Append(args.output.dir, args.output.stem))

FileNamed(name) == OutputDirName \o "/" \o name \o ".json"

\* the non-metadata keys of a Combined Output, in order
DataKeyNames(v) == SelectSeq(KeyNames(v), LAMBDA name : name # MetadataKey)

\* the files separate-files mode is to write, in order
FilesToWrite(v) ==
  <<FileNamed(MetadataKey)>>
    \o [p \in 1..Len(DataKeyNames(v)) |-> FileNamed(DataKeyNames(v)[p])]

\* the values that go into them
ValuesToWrite(v) ==
  <<Get(v, MetadataKey)>>
    \o [p \in 1..Len(DataKeyNames(v)) |-> Get(v, DataKeyNames(v)[p])]

HasFile(path) == \E f \in 1..Len(files) : files[f].path = path

ContentOf(path) == files[CHOOSE f \in 1..Len(files) : files[f].path = path].content

\* parsing gave value
Gives(parsed, value) == parsed.ok /\ parsed.v = value

\* the file at path holds JSON text that parses to value
ParsesTo(path, value) == HasFile(path) /\ Gives(json_loads(ContentOf(path)), value)

\* the first k of the paths are reported saved, in order, and their files
\* parse to the values
FirstWritten(paths, values, k) ==
  /\ k <= Len(paths)
  /\ saved = SubSeq(paths, 1, k)
  /\ \A p \in 1..k : ParsesTo(paths[p], values[p])

\* the first k files of separate-files mode are written in full, in order
WrittenInOrder(v, k) == FirstWritten(FilesToWrite(v), ValuesToWrite(v), k)

\* at most one file beyond those saved exists, and every file is one of paths
NoOtherFiles(paths) ==
  /\ Len(saved) < Len(paths)
  /\ Len(files) <= Len(saved) + 1
  /\ \A f \in 1..Len(files) : \E p \in 1..Len(paths) : files[f].path = paths[p]

\* C5 (as stated): whenever a run aborts with a fatal error, none of the
\* data extracted has been written to any output file, in combined mode
\* and in separate-files mode, also when the I/O failure comes after some
\* of the separate files have been processed.
C5_NothingWrittenOnAbort ==
  Aborted => \A f \in 1..Len(files) : files[f].content = <<>>

\* C5 (amended): a run that aborts before save_to_file (input absent or
\* not readable) has created no file and no directory; a run that aborts
\* on an I/O failure while writing exits non-zero and rolls nothing back:
\* in combined mode no file is reported saved and at most the one output
\* file exists, in separate-files mode the files written before the
\* failure stay, complete and in writing order, and at most one more file,
\* the one being written, exists.
C5_AbortKeepsWrittenFiles ==
  Aborted =>
    /\ exit_code = 1
    /\ error # "OSError" => (files = <<>> /\ dirs = {} /\ saved = <<>>)
    /\ (error = "OSError" /\ ~args.separate) =>
         /\ saved = <<>>
         /\ \A f \in 1..Len(files) : files[f].path = PathStr(OutputPathOf(args))
    /\ (error = "OSError" /\ args.separate) =>
         /\ WrittenInOrder(calls[1].returned, Len(saved))
         /\ NoOtherFiles(FilesToWrite(calls[1].returned))
         /\ dirs = {} => files = <<>>

C5_Witness ==
  /\ Aborted
  /\ error = "OSError"
  /\ args.separate
  /\ Len(saved) = 3
  /\ Len(files) = 4
  /\ ParsesTo(saved[3], calls[1].returned.items[3].v)

\* C6: in separate-files mode save_to_file writes the metadata file
\* extraction_metadata.json first and then one file <key>.json per
\* non-metadata key, in key order, all in the directory named after the
\* base name of the output path; the files are as many as the result keys
\* plus one, no two keys share a file, and each file parses to the value of
\* its key in the Combined Output.
C6_SeparateFiles ==
  (pc = "done" /\ args.separate) =>
    /\ exit_code = 0
    /\ OutputDirName \in dirs
    /\ WrittenInOrder(calls[1].returned, Len(FilesToWrite(calls[1].returned)))
    /\ Len(saved) = Len(calls[1].returned.items)
    /\ Len(files) = Len(saved)
    /\ \A p, q \in 1..Len(saved) : p # q => saved[p] # saved[q]
    /\ \A f \in 1..Len(files) : files[f].path = saved[f]
    /\ saved[1] = OutputDirName \o "/extraction_metadata.json"
    /\ \A p \in 2..Len(saved) :
         saved[p] = OutputDirName \o "/" \o KeyNames(calls[1].returned)[p] \o ".json"

C6_Witness ==
  /\ pc = "done"
  /\ args.separate
  /\ args.pretty
  /\ saved = <<"analysis/extracted_data/extraction_metadata.json",
               "analysis/extracted_data/header.json",
               "analysis/extracted_data/shared_query_texts_raw.json">>
  /\ ParsesTo(saved[3], JStr(<<"\"", Latin1Char>>))

C6_WitnessBaseName ==
  /\ pc = "done"
  /\ args.separate
  /\ ~args.pretty
  /\ saved = <<"data/trace/extraction_metadata.json", "data/trace/entries.json">>

(***************************************************************************)
(* Properties of a sequence of calls on one instance                       *)
(***************************************************************************)
NewInstanceHeap == << <<>>, <<>> >>

NewInstance == [extracted_data |-> 1, extraction_metadata |-> 2]

\* what the call with record c returns when made on a new instance
AloneResult(c) ==
  DictValue(extract_from_file(NewInstanceHeap, NewInstance, c.now, c.input).heap,
            extract_from_file(NewInstanceHeap, NewInstance, c.now, c.input).result)

\* C10: in a sequence of extract_from_file calls on one instance each
\* returned Combined Output depends on the document of its call only, a
\* Combined Output returned earlier is not changed by a later call, and a
\* call that fails with FileNotFoundError leaves extracted_data and
\* extraction_metadata as they were before it.
C10_CallsIndependent ==
  \A n \in 1..Len(calls) :
    /\ calls[n].raised = "none" =>
         /\ calls[n].returned = AloneResult(calls[n])
         /\ DictValue(heap, calls[n].result) = calls[n].returned
    /\ calls[n].raised = "FileNotFoundError" =>
         IF n = Len(calls)
           THEN /\ DictValue(heap, self.extracted_data) = calls[n].data_before
                /\ DictValue(heap, self.extraction_metadata) = calls[n].md_before
           ELSE /\ calls[n + 1].data_before = calls[n].data_before
                /\ calls[n + 1].md_before = calls[n].md_before

C10_Witness ==
  /\ Len(calls) = 2
  /\ calls[1].raised = "none"
  /\ calls[2].raised = "none"
  /\ KeyNames(calls[1].returned) = <<MetadataKey, "header", "entries_raw">>
  /\ KeyNames(calls[2].returned) = <<MetadataKey, "entries">>

C10_WitnessFailure ==
  /\ Len(calls) = 2
  /\ calls[1].raised = "none"
  /\ calls[2].raised = "FileNotFoundError"
  /\ Len(calls[2].data_before.items) = 2

=============================================================================
